---- MODULE Spec2Model ----
(***************************************************************************)
(* Model of the kiosk payment screen (PaymentScreen, pages/payment) and    *)
(* the stores it drives.  The screen is a React function component: its    *)
(* useState values and the store fields are read through the closure of    *)
(* the last committed render (variable rendered), its useRef cells are     *)
(* read live (variable refs).  Every handler, effect, timer callback,      *)
(* socket callback and mutation callback is one action.                    *)
(***************************************************************************)
EXTENDS Integers, Sequences, FiniteSets, TLC

VARIABLES
    payment,    \* usePaymentStore: orderId, requestId, requestCode, requestMethod, status, timer, isActive
    ui,         \* useState cells of PaymentScreen
    refs,       \* useRef cells of PaymentScreen
    mut,        \* the three useMutation observers and their calls in flight
    sockets,    \* every WebSocket object created by connectWebSocket
    cart,       \* useCartStore.items
    route,      \* the router's current path
    rendered,   \* the values captured by the closures of the last committed render
    hist,       \* counters of what the screen asked of the outside world
    limit,      \* how much of each the run may use (fixed by Init)
    auth        \* useAuthStore, with the position of the action that is running

vars == <<payment, ui, refs, mut, sockets, cart, route, rendered, hist, limit, auth>>

(***************************************************************************)
(* Bounds of the exploration                                               *)
(***************************************************************************)
MaxSockets == 1      \* WebSocket objects created in a session run
MaxCreates == 2      \* payment-creation calls issued in a session run
MaxCancels == 2      \* order-cancellation calls issued in a session run
MaxMessages == 2     \* inbound frames delivered in a session run
MaxClicks == 2       \* user interactions in a session run
MaxChannelSockets == 6   \* WebSocket objects created in a channel run
MaxTimer == 1        \* seconds until expiry returned by the server
MaxIdLen == 4        \* characters held by the identifier input
MaxKeys == 4         \* keypad presses in a keypad run
MaxStock == 2        \* largest stock figure of a product
MaxAlerts == 2       \* alert timeouts pending at once

\* A run is explored within one of these budgets: a session run exercises
\* creation, cancellation, frames and the user; a channel run spends its
\* budget on connections; a keypad run lets the user type an identifier.
SessionRun ==
    [sockets |-> MaxSockets, creates |-> MaxCreates, cancels |-> MaxCancels,
     messages |-> MaxMessages, clicks |-> MaxClicks, keys |-> 0]
ChannelRun ==
    [sockets |-> MaxChannelSockets, creates |-> MaxCreates - 1, cancels |-> 0,
     messages |-> 0, clicks |-> MaxClicks - 1, keys |-> 0]
KeypadRun ==
    [sockets |-> MaxSockets, creates |-> MaxCreates, cancels |-> 0,
     messages |-> 0, clicks |-> MaxClicks, keys |-> MaxKeys]
Budgets == {SessionRun, ChannelRun, KeypadRun}

(***************************************************************************)
(* Program constants                                                       *)
(***************************************************************************)
MAX_RECONNECT_ATTEMPTS == 3
MAX_RECONNECT_DELAY == 10000
WS_RECONNECT_DELAY == 3000
NOTIFICATION_DURATION == 3000

\* token: null of the auth store; a token is a string
Null == "(null)"
\* the auth store as created: no action running, none called yet
InitialAuth ==
    [token |-> Null, authenticated |-> FALSE, initialized |-> FALSE,
     loading |-> FALSE, error |-> Null,
     pc |-> "idle", arg |-> Null,
     last |-> [op |-> "none", token |-> Null, authenticated |-> FALSE]]

PaymentMethods == {"QR_CODE", "STUDENT_ID"}
WebSocketStatuses == {"CONNECTING", "CONNECTED", "DISCONNECTED", "FAILED"}
TerminalStatuses == {"COMPLETED", "FAILED", "EXPIRED", "CANCELLED"}
\* data.status of an inbound frame; MALFORMED is a frame JSON.parse rejects
FrameKinds == {"COMPLETED", "FAILED", "EXPIRED", "PENDING", "MALFORMED"}
\* error.response.data.code of a failed creation call; NO_CODE is a response
\* without a code, which gets the generic message
ErrorInputs == {"ORDER_NOT_PENDING", "USER_NOT_FOUND", "NO_CODE"}
KeypadKeys == {"1", "delete", "clear"}

ERROR_MESSAGES ==
    [c \in {"ORDER_NOT_FOUND", "ORDER_NOT_PENDING", "USER_NOT_FOUND", "BOOTH_NOT_FOUND"} |->
        CASE c = "ORDER_NOT_FOUND" -> "msg_order_not_found"
          [] c = "ORDER_NOT_PENDING" -> "msg_order_not_pending"
          [] c = "USER_NOT_FOUND" -> "msg_user_not_found"
          [] c = "BOOTH_NOT_FOUND" -> "msg_booth_not_found"]

(***************************************************************************)
(* The whole mutable state as one record, so that a handler is a function  *)
(* from state to state and handlers compose as they call each other.       *)
(***************************************************************************)
World ==
    [payment |-> payment, ui |-> ui, refs |-> refs, mut |-> mut,
     sockets |-> sockets, cart |-> cart, route |-> route, hist |-> hist]

Commit(w) ==
    /\ payment' = w.payment
    /\ ui' = w.ui
    /\ refs' = w.refs
    /\ mut' = w.mut
    /\ sockets' = w.sockets
    /\ cart' = w.cart
    /\ route' = w.route
    /\ hist' = w.hist
    /\ limit' = limit
    /\ auth' = auth

\* what a render reads: store fields, useState cells and mutation flags
Snapshot(w) ==
    [committed |-> TRUE,
     orderId |-> w.payment.orderId,
     requestId |-> w.payment.requestId,
     requestCode |-> w.payment.requestCode,
     requestMethod |-> w.payment.requestMethod,
     status |-> w.payment.status,
     timer |-> w.payment.timer,
     isActive |-> w.payment.isActive,
     selectedMethod |-> w.ui.selectedMethod,
     studentId |-> w.ui.studentId,
     errorMessage |-> w.ui.errorMessage,
     errorCode |-> w.ui.errorCode,
     wsStatus |-> w.ui.wsStatus,
     qrPending |-> w.mut.qr.cur,
     sidPending |-> w.mut.sid.cur,
     cancelPending |-> w.mut.cancel.cur]

(***************************************************************************)
(* usePaymentStore (stores/payment)                                        *)
(***************************************************************************)
setPaymentRequest(w, id, code, st, method, seconds) ==
    [w EXCEPT !.payment = [@ EXCEPT !.requestId = id, !.requestCode = code,
                                    !.status = st, !.requestMethod = method,
                                    !.timer = seconds, !.isActive = TRUE]]

resetPaymentRequest(w) ==
    [w EXCEPT !.payment = [@ EXCEPT !.requestId = 0, !.requestCode = 0,
                                    !.requestMethod = "NONE",
                                    !.timer = 0, !.isActive = FALSE]]

setStatus(w, st) == [w EXCEPT !.payment.status = st]

decrementTimer(w) ==
    IF w.payment.isActive /\ w.payment.timer > 0
    THEN [w EXCEPT !.payment.timer = @ - 1]
    ELSE w

cancelPayment(w) ==
    [w EXCEPT !.payment = [orderId |-> 0, requestId |-> 0, requestCode |-> 0,
                           requestMethod |-> "NONE", status |-> "CANCELLED",
                           timer |-> 0, isActive |-> FALSE]]

\* used by the confirmation screen: the store goes back to its empty state
resetPayment(w) ==
    [w EXCEPT !.payment = [orderId |-> 0, requestId |-> 0, requestCode |-> 0,
                           requestMethod |-> "NONE", status |-> "PENDING",
                           timer |-> 0, isActive |-> FALSE]]

(***************************************************************************)
(* useCartStore (stores/cart)                                              *)
(***************************************************************************)
\* a cart line is [id, price, quantity]; the name of the product is carried
\* along unchanged by every operation and is left out
clearCart(w) == [w EXCEPT !.cart = <<>>]

\* items.filter((item) => item.id !== id)
RECURSIVE FilterOtherIds(_, _)
FilterOtherIds(items, id) ==
    IF items = <<>> THEN <<>>
    ELSE IF Head(items).id # id THEN <<Head(items)>> \o FilterOtherIds(Tail(items), id)
    ELSE FilterOtherIds(Tail(items), id)

addItem_AlwaysAppends(w, product) ==
    [w EXCEPT !.cart = Append(@, [id |-> product.id, price |-> product.price, quantity |-> 1])]

addItem(w, product) ==
    LET items == w.cart
        existingItem == \E i \in DOMAIN items : items[i].id = product.id
    IN IF existingItem
       THEN [w EXCEPT !.cart = [i \in DOMAIN items |->
                                   IF items[i].id = product.id
                                   THEN [items[i] EXCEPT !.quantity = @ + 1]
                                   ELSE items[i]]]
       ELSE [w EXCEPT !.cart = Append(items, [id |-> product.id, price |-> product.price,
                                              quantity |-> 1])]

updateQuantity_CreatesLine(w, id, quantity) ==
    LET items == w.cart
    IN IF quantity <= 0
       THEN [w EXCEPT !.cart = FilterOtherIds(items, id)]
       ELSE IF \E i \in DOMAIN items : items[i].id = id
       THEN [w EXCEPT !.cart = [i \in DOMAIN items |->
                                   IF items[i].id = id
                                   THEN [items[i] EXCEPT !.quantity = quantity]
                                   ELSE items[i]]]
       ELSE [w EXCEPT !.cart = Append(items, [id |-> id, price |-> 0, quantity |-> quantity])]

updateQuantity_KeepsZero(w, id, quantity) ==
    [w EXCEPT !.cart = [i \in DOMAIN @ |->
                           IF @[i].id = id THEN [@[i] EXCEPT !.quantity = quantity] ELSE @[i]]]

updateQuantity(w, id, quantity) ==
    LET items == w.cart
    IN IF quantity <= 0
       THEN [w EXCEPT !.cart = FilterOtherIds(items, id)]
       ELSE [w EXCEPT !.cart = [i \in DOMAIN items |->
                                   IF items[i].id = id
                                   THEN [items[i] EXCEPT !.quantity = quantity]
                                   ELSE items[i]]]

\* items.reduce((total, item) => total + item.price * item.quantity, 0)
RECURSIVE ReduceAmount(_, _)
ReduceAmount(items, total) ==
    IF items = <<>> THEN total
    ELSE ReduceAmount(Tail(items), total + Head(items).price * Head(items).quantity)

getTotalAmount_IgnoresQuantity(w) ==
    LET RECURSIVE R(_, _)
        R(items, total) == IF items = <<>> THEN total ELSE R(Tail(items), total + Head(items).price)
    IN R(w.cart, 0)

getTotalAmount(w) == ReduceAmount(w.cart, 0)

\* items.reduce((total, item) => total + item.quantity, 0)
RECURSIVE ReduceItems(_, _)
ReduceItems(items, total) ==
    IF items = <<>> THEN total
    ELSE ReduceItems(Tail(items), total + Head(items).quantity)

getTotalItems(w) == ReduceItems(w.cart, 0)

(***************************************************************************)
(* PaymentScreen helpers                                                   *)
(***************************************************************************)
navigate(w, path) == [w EXCEPT !.route = path]

\* refs.notificationTimeout is the delay of the pending timeout that
\* notificationTimeoutRef points to (0: none); refs.notificationStrays counts
\* the pending dismiss timeouts that the ref no longer points to
clearNotificationTimeout(w) == [w EXCEPT !.refs.notificationTimeout = 0]

\* notificationTimeoutRef.current = window.setTimeout(..., delay)
armNotificationTimeout(w, delay) ==
    [w EXCEPT !.refs.notificationStrays =
                  IF w.refs.notificationTimeout # 0 THEN @ + 1 ELSE @,
              !.refs.notificationTimeout = delay]

showNotification_KeepsOldTimeout(w, type) ==
    IF ~w.refs.isMounted THEN w
    ELSE armNotificationTimeout([w EXCEPT !.ui.notification = type], NOTIFICATION_DURATION)

showNotification(w, type) ==
    IF ~w.refs.isMounted THEN w
    ELSE armNotificationTimeout(
             [clearNotificationTimeout(w) EXCEPT !.ui.notification = type],
             NOTIFICATION_DURATION)

\* clearTimeout(wsReconnectTimeoutRef.current); wsReconnectTimeoutRef.current = null
clearReconnectTimeout(w) ==
    [w EXCEPT !.refs.wsReconnectTimeout = 0, !.refs.wsReconnectDelay = 0]

\* wsReconnectTimeoutRef.current = window.setTimeout(..., delay), set by an
\* onclose whose closure holds clRequestId; a timeout that is still pending
\* when the ref is overwritten stays scheduled
armReconnectTimeout(w, clRequestId, delay) ==
    [w EXCEPT !.refs.wsReconnectStrays =
                  IF w.refs.wsReconnectTimeout # 0
                  THEN Append(@, w.refs.wsReconnectTimeout) ELSE @,
              !.refs.wsReconnectTimeout = clRequestId,
              !.refs.wsReconnectDelay = delay]

\* useMutation(...).mutate(): the observer follows the newest call only
Mutate(m) == [cur |-> TRUE, old |-> IF m.cur THEN m.old + 1 ELSE m.old]

\* cancelOrderMutation.mutate(); mutationFn posts only when it has an orderId
cancelOrderMutate(w, r, origin) ==
    [w EXCEPT !.mut.cancel = Mutate(@),
              !.hist.cancelCalls = @ + 1,
              !.hist.cancelPosts = IF r.orderId # 0 THEN @ + 1 ELSE @,
              !.hist.cancelBy = IF r.orderId # 0 THEN @ \cup {origin} ELSE @]

handleCancel(w, r, origin) ==
    IF w.refs.isMounted THEN cancelOrderMutate(w, r, origin) ELSE w

qrPaymentMutate(w) ==
    [w EXCEPT !.mut.qr = Mutate(@), !.hist.creates = @ + 1]

createQrPaymentRequest(w) ==
    IF w.refs.isMounted THEN qrPaymentMutate(w) ELSE w

studentIdPaymentMutate(w) ==
    [w EXCEPT !.mut.sid = Mutate(@), !.hist.creates = @ + 1]

\* WebSocket.close()
CloseSocket(w, i) ==
    IF i = 0 THEN w
    ELSE [w EXCEPT !.sockets[i].readyState =
              CASE @ = "CONNECTING" -> "ABORTING"
                [] @ = "OPEN" -> "CLOSING"
                [] OTHER -> @]

\* connectWebSocket as created by a render whose requestId and wsStatus were
\* clRequestId and clWsStatus; the handlers of the socket it creates keep
\* that requestId (and that connectWebSocket) in their closure
connectWebSocket(w, clRequestId, clWsStatus) ==
    IF clRequestId = 0 \/ ~w.refs.isMounted THEN w
    ELSE IF clWsStatus \in {"CONNECTING", "CONNECTED"} THEN w
    ELSE LET w1 == CloseSocket(w, w.refs.webSocket)
             ws == [requestId |-> clRequestId, readyState |-> "CONNECTING"]
         IN [w1 EXCEPT !.ui.wsStatus = "CONNECTING",
                       !.sockets = Append(@, ws),
                       !.refs.webSocket = Len(w.sockets) + 1]

(***************************************************************************)
(* Initial state: PaymentScreen constructed for an order that the products *)
(* screen has just created (createPayment(orderId)), nothing committed.    *)
(***************************************************************************)
\* hist.cartOp: the last call the product listing made on the cart store, with
\* the items it found
NoCartOp == [op |-> "none", id |-> 0, quantity |-> 0, before |-> <<>>]

InitialCart == <<[id |-> 1, price |-> 1000, quantity |-> 2]>>

Init ==
    /\ payment = [orderId |-> 1, requestId |-> 0, requestCode |-> 0,
                  requestMethod |-> "NONE", status |-> "PENDING",
                  timer |-> 0, isActive |-> FALSE]
    /\ ui = [selectedMethod |-> "QR_CODE", studentId |-> <<>>,
             errorMessage |-> "NONE", errorCode |-> "NONE",
             notification |-> "NONE", wsStatus |-> "DISCONNECTED"]
    /\ refs = [isMounted |-> TRUE, wsReconnectAttempts |-> 0, webSocket |-> 0,
               timerInterval |-> FALSE, notificationTimeout |-> 0,
               notificationStrays |-> 0,
               wsReconnectTimeout |-> 0, wsReconnectDelay |-> 0,
               wsReconnectStrays |-> <<>>,
               timerStrays |-> 0]
    /\ mut = [qr |-> [cur |-> FALSE, old |-> 0],
              sid |-> [cur |-> FALSE, old |-> 0],
              cancel |-> [cur |-> FALSE, old |-> 0]]
    /\ sockets = <<>>
    /\ cart = InitialCart
    /\ route = "/payment"
    /\ hist = [creates |-> 0, requests |-> 0, messages |-> 0, clicks |-> 0,
               keys |-> 0, reconnects |-> 0,
               cancelCalls |-> 0, cancelPosts |-> 0, cancelBy |-> {},
               cartOp |-> NoCartOp]
    /\ rendered = [Snapshot(World) EXCEPT !.committed = FALSE]
    /\ limit \in Budgets
    /\ auth = InitialAuth

\* every step stays inside the budget of the run
WithinBounds(w) ==
    /\ Len(w.sockets) <= limit.sockets
    /\ w.hist.creates <= limit.creates
    /\ w.hist.cancelCalls <= limit.cancels
    /\ w.hist.messages <= limit.messages
    /\ w.hist.clicks <= limit.clicks
    /\ w.hist.keys <= limit.keys

Step(w) == WithinBounds(w) /\ Commit(w)

(***************************************************************************)
(* Effects, run at every commit in source order                            *)
(***************************************************************************)
\* useEffect(..., [isActive, timer, status, decrementTimer, handleCancel, navigate])
\* handleCancel is rebuilt by every render, so cleanup and body run at every commit
TimerEffect_NoCancelAtZero(w, r) ==
    LET w0 == [w EXCEPT !.refs.timerInterval = FALSE]
        w1 == IF r.isActive /\ r.timer > 0
              THEN [w0 EXCEPT !.refs.timerInterval = TRUE]
              ELSE w0
    IN IF r.status = "COMPLETED" /\ w1.refs.isMounted
       THEN navigate(w1, "/payment-complete")
       ELSE w1

\* clearInterval(timerIntervalRef.current); timerIntervalRef.current = null
clearTimerInterval(w) == [w EXCEPT !.refs.timerInterval = FALSE]

\* timerIntervalRef.current = window.setInterval(..., 1000); an interval that
\* is still running when the ref is overwritten keeps running
\* (refs.timerStrays counts those)
armTimerInterval(w) ==
    [w EXCEPT !.refs.timerStrays = IF w.refs.timerInterval THEN @ + 1 ELSE @,
              !.refs.timerInterval = TRUE]

TimerEffect_StacksIntervals(w, r) ==
    LET w1 == IF r.isActive /\ r.timer > 0
              THEN armTimerInterval(w)
              ELSE IF r.timer <= 0 /\ r.isActive /\ w.refs.isMounted
                   THEN handleCancel(clearTimerInterval(w), r, "timer")
                   ELSE clearTimerInterval(w)
    IN IF r.status = "COMPLETED" /\ w1.refs.isMounted
       THEN navigate(w1, "/payment-complete")
       ELSE w1

\* useEffect(..., [isActive, timer, status, decrementTimer, handleCancel,
\* navigate]): the cleanup of the previous run, then the body
TimerEffect(w, r) ==
    LET w0 == clearTimerInterval(w)
        w1 == IF r.isActive /\ r.timer > 0
              THEN armTimerInterval(clearTimerInterval(w0))
              ELSE IF r.timer <= 0 /\ r.isActive /\ w0.refs.isMounted
                   THEN handleCancel(w0, r, "timer")
                   ELSE w0
    IN IF r.status = "COMPLETED" /\ w1.refs.isMounted
       THEN navigate(w1, "/payment-complete")
       ELSE w1

\* useEffect(..., [requestId, connectWebSocket, wsStatus])
WebSocketEffect(w, r) ==
    IF r.requestId # 0 /\ r.wsStatus # "CONNECTED" /\ w.refs.isMounted
    THEN connectWebSocket(w, r.requestId, r.wsStatus)
    ELSE IF r.requestId = 0
         THEN LET w1 == IF w.refs.isMounted
                        THEN [w EXCEPT !.ui.wsStatus = "DISCONNECTED"]
                        ELSE w
                  w2 == CloseSocket(w1, w1.refs.webSocket)
              IN [w2 EXCEPT !.refs.webSocket = 0, !.refs.wsReconnectTimeout = 0,
                            !.refs.wsReconnectDelay = 0]
         ELSE w

\* useEffect(..., [selectedMethod, orderId, requestCode, createQrPaymentRequest, isPending])
QrAutoCreateEffect(w, r) ==
    IF /\ r.selectedMethod = "QR_CODE"
       /\ r.orderId # 0
       /\ r.requestCode = 0
       /\ ~r.qrPending
       /\ w.refs.isMounted
    THEN createQrPaymentRequest(w)
    ELSE w

\* a commit of PaymentScreen: the closures are renewed, then the effects run
Render ==
    /\ refs.isMounted
    /\ LET r == Snapshot(World)
           w == QrAutoCreateEffect(WebSocketEffect(TimerEffect(World, r), r), r)
       IN /\ rendered' = r
          /\ Step(w)

unmountCleanup_LeavesSocket(w) ==
    [w EXCEPT !.refs = [@ EXCEPT !.isMounted = FALSE,
                                 !.notificationTimeout = 0,
                                 !.timerInterval = FALSE,
                                 !.wsReconnectTimeout = 0,
                                 !.wsReconnectDelay = 0]]

\* the cleanup of the mount effect (and of the timer effect): the flag goes
\* down, the three timer handles are cleared, the socket is closed
unmountCleanup(w) ==
    LET w1 == CloseSocket(w, w.refs.webSocket)
    IN [w1 EXCEPT !.refs = [@ EXCEPT !.isMounted = FALSE,
                                     !.notificationTimeout = 0,
                                     !.timerInterval = FALSE,
                                     !.wsReconnectTimeout = 0,
                                     !.wsReconnectDelay = 0,
                                     !.webSocket = 0]]

\* the screen is unmounted when the router has left /payment
Unmount ==
    /\ refs.isMounted
    /\ route # "/payment"
    /\ Step(unmountCleanup(World))
    /\ UNCHANGED rendered

(***************************************************************************)
(* Mutation callbacks (the network answers)                                *)
(***************************************************************************)
\* the call that settles is the observer's current one (cur) or a superseded one
Settle(m, which) ==
    IF which = "cur" THEN [m EXCEPT !.cur = FALSE] ELSE [m EXCEPT !.old = @ - 1]

InFlight(m, which) == IF which = "cur" THEN m.cur ELSE m.old > 0

\* onError of qrPaymentMutation and of studentIdPaymentMutation
creationOnError(w, err) ==
    IF ~w.refs.isMounted THEN w
    ELSE LET generic == "msg_generic"
             code == IF err \in {"NO_CODE", "ECONNABORTED"} THEN "NONE" ELSE err
             errorMsg == IF code # "NONE" /\ code \in DOMAIN ERROR_MESSAGES
                         THEN ERROR_MESSAGES[code]
                         ELSE IF err = "ECONNABORTED" THEN "msg_timeout" ELSE generic
         IN showNotification([w EXCEPT !.ui.errorCode = code,
                                       !.ui.errorMessage = errorMsg], "error")

qrOnSuccess_NoMountedGuard(w, id, seconds) ==
    setPaymentRequest(w, id, id, "PENDING", "QR_CODE", seconds)

qrOnSuccess(w, id, seconds) ==
    IF ~w.refs.isMounted THEN w
    ELSE setPaymentRequest(w, id, id, "PENDING", "QR_CODE", seconds)

studentIdOnSuccess(w, id, seconds) ==
    IF ~w.refs.isMounted THEN w
    ELSE showNotification(setPaymentRequest(w, id, id, "PENDING", "STUDENT_ID", seconds),
                          "success")

QrPaymentSuccess ==
    \E which \in {"cur", "old"}, seconds \in 1..MaxTimer :
        /\ InFlight(mut.qr, which)
        /\ LET id == hist.requests + 1
               w == [World EXCEPT !.mut.qr = Settle(@, which), !.hist.requests = id]
           IN Step(qrOnSuccess(w, id, seconds))
        /\ UNCHANGED rendered

QrPaymentError ==
    \E which \in {"cur", "old"}, err \in ErrorInputs :
        /\ InFlight(mut.qr, which)
        /\ Step(creationOnError([World EXCEPT !.mut.qr = Settle(@, which)], err))
        /\ UNCHANGED rendered

StudentIdPaymentSuccess ==
    \E which \in {"cur", "old"}, seconds \in 1..MaxTimer :
        /\ InFlight(mut.sid, which)
        /\ LET id == hist.requests + 1
               w == [World EXCEPT !.mut.sid = Settle(@, which), !.hist.requests = id]
           IN Step(studentIdOnSuccess(w, id, seconds))
        /\ UNCHANGED rendered

StudentIdPaymentError ==
    \E which \in {"cur", "old"}, err \in ErrorInputs :
        /\ InFlight(mut.sid, which)
        /\ Step(creationOnError([World EXCEPT !.mut.sid = Settle(@, which)], err))
        /\ UNCHANGED rendered

\* onError of cancelOrderMutation
cancelOnError(w) ==
    IF ~w.refs.isMounted THEN w ELSE showNotification(w, "error")

\* onSettled of cancelOrderMutation
cancelOnSettled(w) ==
    IF ~w.refs.isMounted THEN w
    ELSE navigate(clearCart(cancelPayment(w)), "/products")

cancelSettle_CleanupOnSuccessOnly(w, failed) ==
    IF failed THEN cancelOnError(w) ELSE cancelOnSettled(w)

\* a cancellation call settles: onError when it failed, then onSettled
cancelSettle(w, failed) ==
    cancelOnSettled(IF failed THEN cancelOnError(w) ELSE w)

CancelOrderSettled ==
    \E which \in {"cur", "old"}, failed \in BOOLEAN :
        /\ InFlight(mut.cancel, which)
        /\ LET w == [World EXCEPT !.mut.cancel = Settle(@, which)]
           IN Step(cancelSettle(w, failed))
        /\ UNCHANGED rendered

(***************************************************************************)
(* Timer callbacks                                                         *)
(***************************************************************************)
\* the callback of the 1000 ms interval
TimerTick ==
    \E stray \in BOOLEAN :
        /\ IF stray THEN refs.timerStrays > 0 ELSE refs.timerInterval
        /\ Step(IF refs.isMounted THEN decrementTimer(World) ELSE World)
        /\ UNCHANGED rendered

\* the callback of the NOTIFICATION_DURATION timeout
NotificationTimeout ==
    \E stray \in BOOLEAN :
        /\ IF stray THEN refs.notificationStrays > 0 ELSE refs.notificationTimeout # 0
        /\ LET w == IF stray
                    THEN [World EXCEPT !.refs.notificationStrays = @ - 1]
                    ELSE [World EXCEPT !.refs.notificationTimeout = 0]
           IN Step(IF w.refs.isMounted THEN [w EXCEPT !.ui.notification = "NONE"] ELSE w)
        /\ UNCHANGED rendered

\* the callback of a reconnect timeout.  refs.wsReconnectTimeout holds the
\* requestId in the closure of the onclose that scheduled it (a stray one is
\* a pending timeout that wsReconnectTimeoutRef no longer points to); the
\* connectWebSocket of that closure was built with a wsStatus that let it
\* create a socket, so neither CONNECTING nor CONNECTED
ReconnectTimeout ==
    \E stray \in BOOLEAN :
        /\ IF stray THEN refs.wsReconnectStrays # <<>> ELSE refs.wsReconnectTimeout # 0
        /\ LET clRequestId == IF stray THEN Head(refs.wsReconnectStrays)
                                        ELSE refs.wsReconnectTimeout
               w == IF stray
                    THEN [World EXCEPT !.refs.wsReconnectStrays = Tail(@)]
                    ELSE clearReconnectTimeout(World)
           IN Step(IF w.refs.isMounted
                   THEN connectWebSocket([w EXCEPT !.refs.wsReconnectAttempts = @ + 1],
                                         clRequestId, "DISCONNECTED")
                   ELSE w)
        /\ UNCHANGED rendered

(***************************************************************************)
(* WebSocket callbacks of socket i                                         *)
(***************************************************************************)
wsOnOpen_KeepsAttempts(w) ==
    IF w.refs.isMounted THEN [w EXCEPT !.ui.wsStatus = "CONNECTED"] ELSE w

wsOnOpen(w) ==
    IF w.refs.isMounted
    THEN [w EXCEPT !.ui.wsStatus = "CONNECTED", !.refs.wsReconnectAttempts = 0]
    ELSE w

wsOnMessage_ExpiredOnlySetsStatus(w, r, frame) ==
    IF ~w.refs.isMounted THEN w
    ELSE CASE frame = "COMPLETED" -> setStatus(w, "COMPLETED")
           [] frame = "FAILED" -> showNotification(setStatus(w, "FAILED"), "error")
           [] frame = "EXPIRED" -> showNotification(setStatus(w, "EXPIRED"), "error")
           [] frame = "MALFORMED" -> [w EXCEPT !.ui.wsStatus = "FAILED"]
           [] OTHER -> w

wsOnMessage_FailedCancels(w, r, frame) ==
    IF ~w.refs.isMounted THEN w
    ELSE CASE frame = "COMPLETED" -> setStatus(w, "COMPLETED")
           [] frame = "FAILED" ->
                handleCancel(showNotification(setStatus(w, "FAILED"), "error"), r, "failed")
           [] frame = "EXPIRED" ->
                handleCancel(showNotification(setStatus(w, "EXPIRED"), "error"), r, "expired")
           [] frame = "MALFORMED" -> [w EXCEPT !.ui.wsStatus = "FAILED"]
           [] OTHER -> w

wsOnMessage_CompletedClearsCart(w, r, frame) ==
    IF ~w.refs.isMounted THEN w
    ELSE CASE frame = "COMPLETED" -> clearCart(setStatus(w, "COMPLETED"))
           [] frame = "FAILED" -> showNotification(setStatus(w, "FAILED"), "error")
           [] frame = "EXPIRED" ->
                handleCancel(showNotification(setStatus(w, "EXPIRED"), "error"), r, "expired")
           [] frame = "MALFORMED" -> [w EXCEPT !.ui.wsStatus = "FAILED"]
           [] OTHER -> w

wsOnMessage_MalformedIsFatal(w, r, frame) ==
    IF ~w.refs.isMounted THEN w
    ELSE CASE frame = "COMPLETED" -> setStatus(w, "COMPLETED")
           [] frame = "FAILED" -> showNotification(setStatus(w, "FAILED"), "error")
           [] frame = "EXPIRED" ->
                handleCancel(showNotification(setStatus(w, "EXPIRED"), "error"), r, "expired")
           [] frame = "MALFORMED" ->
                handleCancel([setStatus(w, "FAILED") EXCEPT !.ui.wsStatus = "FAILED"],
                             r, "failed")
           [] OTHER -> w

wsOnMessage(w, r, frame) ==
    IF ~w.refs.isMounted THEN w
    ELSE CASE frame = "COMPLETED" -> setStatus(w, "COMPLETED")
           [] frame = "FAILED" -> showNotification(setStatus(w, "FAILED"), "error")
           [] frame = "EXPIRED" ->
                handleCancel(showNotification(setStatus(w, "EXPIRED"), "error"), r, "expired")
           [] frame = "MALFORMED" -> [w EXCEPT !.ui.wsStatus = "FAILED"]
           [] OTHER -> w

wsOnError(w) ==
    IF w.refs.isMounted THEN [w EXCEPT !.ui.wsStatus = "FAILED"] ELSE w

\* Math.min(a, b)
Min(a, b) == IF a < b THEN a ELSE b

\* the delay of the reconnect scheduled after `attempts` attempts
ReconnectDelay(attempts) ==
    Min(WS_RECONNECT_DELAY * (attempts + 1), MAX_RECONNECT_DELAY)

wsOnClose_FixedDelay(w, i, wasClean) ==
    IF ~w.refs.isMounted THEN w
    ELSE IF wasClean THEN w
    ELSE IF /\ w.refs.wsReconnectAttempts < MAX_RECONNECT_ATTEMPTS
            /\ w.sockets[i].requestId # 0
            /\ w.refs.isMounted
         THEN armReconnectTimeout(
                  clearReconnectTimeout([w EXCEPT !.ui.wsStatus = "DISCONNECTED"]),
                  w.sockets[i].requestId,
                  WS_RECONNECT_DELAY)
         ELSE [w EXCEPT !.ui.wsStatus = "FAILED"]

wsOnClose_NoAttemptLimit(w, i, wasClean) ==
    IF ~w.refs.isMounted THEN w
    ELSE IF wasClean THEN w
    ELSE armReconnectTimeout(
             clearReconnectTimeout([w EXCEPT !.ui.wsStatus = "DISCONNECTED"]),
             w.sockets[i].requestId,
             ReconnectDelay(w.refs.wsReconnectAttempts))

wsOnClose_StacksTimeouts(w, i, wasClean) ==
    IF ~w.refs.isMounted THEN w
    ELSE IF wasClean THEN w
    ELSE IF /\ w.refs.wsReconnectAttempts < MAX_RECONNECT_ATTEMPTS
            /\ w.sockets[i].requestId # 0
            /\ w.refs.isMounted
         THEN armReconnectTimeout(
                  [w EXCEPT !.ui.wsStatus = "DISCONNECTED"],
                  w.sockets[i].requestId,
                  ReconnectDelay(w.refs.wsReconnectAttempts))
         ELSE [w EXCEPT !.ui.wsStatus = "FAILED"]

\* ws.onclose of socket i; the pending reconnect timeout, if any, is cleared
\* before the new one is set
wsOnClose(w, i, wasClean) ==
    IF ~w.refs.isMounted THEN w
    ELSE IF wasClean THEN w
    ELSE IF /\ w.refs.wsReconnectAttempts < MAX_RECONNECT_ATTEMPTS
            /\ w.sockets[i].requestId # 0
            /\ w.refs.isMounted
         THEN armReconnectTimeout(
                  clearReconnectTimeout([w EXCEPT !.ui.wsStatus = "DISCONNECTED"]),
                  w.sockets[i].requestId,
                  ReconnectDelay(w.refs.wsReconnectAttempts))
         ELSE [w EXCEPT !.ui.wsStatus = "FAILED"]

\* a closed socket fires no further event
ClosedSocket == [requestId |-> 0, readyState |-> "CLOSED"]

SocketOpen ==
    \E i \in DOMAIN sockets :
        /\ sockets[i].readyState = "CONNECTING"
        /\ Step(wsOnOpen([World EXCEPT !.sockets[i].readyState = "OPEN"]))
        /\ UNCHANGED rendered

SocketMessage ==
    \E i \in DOMAIN sockets, frame \in FrameKinds :
        /\ sockets[i].readyState = "OPEN"
        /\ Step(wsOnMessage([World EXCEPT !.hist.messages = @ + 1], rendered, frame))
        /\ UNCHANGED rendered

\* the connection ends: the browser fires error (when the connection failed)
\* and then close, in one task
SocketClose ==
    \E i \in DOMAIN sockets, wasClean \in BOOLEAN, withError \in BOOLEAN :
        /\ sockets[i].readyState \in {"CONNECTING", "OPEN", "CLOSING", "ABORTING"}
        \* a socket that never opened, or was closed before it opened, fails
        /\ sockets[i].readyState \in {"CONNECTING", "ABORTING"} => (withError /\ ~wasClean)
        /\ wasClean => ~withError
        /\ sockets[i].readyState = "CLOSING" => ~withError
        /\ LET w0 == IF withError THEN wsOnError(World) ELSE World
               w1 == wsOnClose(w0, i, wasClean)
           IN Step([w1 EXCEPT !.sockets[i] = ClosedSocket])
        /\ UNCHANGED rendered

(***************************************************************************)
(* What the user can do with the committed screen.  A button exists, is    *)
(* enabled and runs its handler as the last committed render built it.     *)
(***************************************************************************)
OnScreen == refs.isMounted /\ rendered.committed

Click(w) == Step([w EXCEPT !.hist.clicks = @ + 1])

isSubmitting(r) == r.qrPending \/ r.sidPending \/ r.cancelPending

\* renderStudentIdPaymentContent shows "requested" instead of the keypad
StudentRequestedView(r) ==
    r.selectedMethod = "STUDENT_ID" /\ r.requestMethod = "STUDENT_ID" /\ r.requestCode # 0

\* the view that shows errorMessage and renderErrorAction()
ErrorView(r) ==
    /\ r.errorMessage # "NONE"
    /\ IF r.selectedMethod = "QR_CODE" THEN ~r.qrPending ELSE ~StudentRequestedView(r)

KeypadView(r) ==
    r.selectedMethod = "STUDENT_ID" /\ ~StudentRequestedView(r) /\ r.errorMessage = "NONE"

\* parseInt(s, 10): leading white space is skipped, one sign is read, then
\* the longest run of digits; NaN when no digit follows
DigitOf(c) ==
    CASE c = "0" -> 0 [] c = "1" -> 1 [] c = "2" -> 2 [] c = "3" -> 3 [] c = "4" -> 4
      [] c = "5" -> 5 [] c = "6" -> 6 [] c = "7" -> 7 [] c = "8" -> 8 [] c = "9" -> 9
      [] OTHER -> -1

RECURSIVE ParseDigits(_, _)
ParseDigits(s, acc) ==
    IF s = <<>> \/ DigitOf(Head(s)) < 0 THEN acc
    ELSE ParseDigits(Tail(s), 10 * acc + DigitOf(Head(s)))

RECURSIVE TrimStart(_)
TrimStart(s) ==
    IF s # <<>> /\ Head(s) = " " THEN TrimStart(Tail(s)) ELSE s

parseInt(s) ==
    LET t == TrimStart(s)
        signed == t # <<>> /\ Head(t) \in {"+", "-"}
        digits == IF signed THEN Tail(t) ELSE t
    IN IF digits = <<>> \/ DigitOf(Head(digits)) < 0
       THEN [nan |-> TRUE, n |-> 0]
       ELSE [nan |-> FALSE,
             n |-> IF signed /\ Head(t) = "-"
                   THEN 0 - ParseDigits(digits, 0)
                   ELSE ParseDigits(digits, 0)]

\* JavaScript comparison p >= lo && p <= hi, false for NaN
Between(p, lo, hi) == ~p.nan /\ p.n >= lo /\ p.n <= hi

validateStudentId(id) ==
    IF Len(id) # 4 THEN FALSE
    ELSE LET grade == parseInt(<<id[1]>>)
             room == parseInt(<<id[2]>>)
             number == parseInt(SubSeq(id, 3, 4))
         IN Between(grade, 1, 9) /\ Between(room, 1, 9) /\ Between(number, 1, 99)

handleMethodChange(w, r, method) ==
    IF /\ r.selectedMethod # method
       /\ ~r.qrPending
       /\ ~r.sidPending
       /\ w.refs.isMounted
    THEN LET w1 == resetPaymentRequest([w EXCEPT !.ui.selectedMethod = method,
                                                 !.ui.errorMessage = "NONE",
                                                 !.ui.errorCode = "NONE"])
         IN IF method = "STUDENT_ID" THEN [w1 EXCEPT !.ui.studentId = <<>>] ELSE w1
    ELSE w

handleStudentIdSubmit_NoValidation(w, r) ==
    IF ~w.refs.isMounted THEN w ELSE studentIdPaymentMutate(w)

handleStudentIdSubmit(w, r) ==
    IF ~w.refs.isMounted THEN w
    ELSE IF ~validateStudentId(r.studentId) THEN showNotification(w, "info")
    ELSE studentIdPaymentMutate(w)

handleRetry(w, r) ==
    IF ~w.refs.isMounted THEN w
    ELSE LET w1 == [resetPaymentRequest(w) EXCEPT !.ui.errorMessage = "NONE",
                                                  !.ui.errorCode = "NONE"]
         IN IF r.selectedMethod = "STUDENT_ID" THEN [w1 EXCEPT !.ui.studentId = <<>>] ELSE w1

handleKeypadPress(w, r, key) ==
    IF ~w.refs.isMounted THEN w
    ELSE IF key = "delete"
         THEN [w EXCEPT !.ui.studentId = IF @ = <<>> THEN @ ELSE SubSeq(@, 1, Len(@) - 1)]
    ELSE IF key = "clear" THEN [w EXCEPT !.ui.studentId = <<>>]
    ELSE IF Len(r.studentId) < 4 THEN [w EXCEPT !.ui.studentId = Append(@, key)]
    ELSE w

handleReconnectWebSocket_KeepsAttempts(w, r) ==
    IF w.refs.isMounted
    THEN connectWebSocket(w, r.requestId, r.wsStatus)
    ELSE w

handleReconnectWebSocket(w, r) ==
    IF w.refs.isMounted
    THEN connectWebSocket([w EXCEPT !.refs.wsReconnectAttempts = 0],
                          r.requestId, r.wsStatus)
    ELSE w

ClickMethod ==
    \E method \in PaymentMethods :
        /\ OnScreen
        /\ ~isSubmitting(rendered)
        /\ Click(handleMethodChange(World, rendered, method))
        /\ UNCHANGED rendered

ClickKeypad ==
    \E key \in KeypadKeys :
        /\ OnScreen
        /\ KeypadView(rendered)
        /\ LET w == handleKeypadPress(World, rendered, key)
           IN /\ Len(w.ui.studentId) <= MaxIdLen
              /\ Step([w EXCEPT !.hist.keys = @ + 1])
        /\ UNCHANGED rendered

ClickSubmit ==
    /\ OnScreen
    /\ KeypadView(rendered)
    /\ validateStudentId(rendered.studentId)
    /\ ~rendered.sidPending
    /\ Click(handleStudentIdSubmit(World, rendered))
    /\ UNCHANGED rendered

\* the button renderErrorAction() puts under the error message
renderErrorAction(r) ==
    IF r.errorCode = "NONE" THEN "none"
    ELSE IF r.errorCode \in {"ORDER_NOT_PENDING", "ORDER_NOT_FOUND"} THEN "back"
    ELSE "retry"

ClickRetry ==
    /\ OnScreen
    /\ \/ StudentRequestedView(rendered) /\ ~isSubmitting(rendered)
       \/ ErrorView(rendered) /\ renderErrorAction(rendered) = "retry"
    /\ Click(handleRetry(World, rendered))
    /\ UNCHANGED rendered

\* the button renderErrorAction offers for ORDER_NOT_PENDING and ORDER_NOT_FOUND
ClickBackToProducts ==
    /\ OnScreen
    /\ ErrorView(rendered)
    /\ renderErrorAction(rendered) = "back"
    /\ Click(navigate(World, "/products"))
    /\ UNCHANGED rendered

\* the close button of the notification banner
DismissNotification ==
    /\ OnScreen
    /\ ui.notification # "NONE"
    /\ Click([World EXCEPT !.ui.notification = "NONE"])
    /\ UNCHANGED rendered

\* the back button of the header
ClickBack ==
    /\ OnScreen
    /\ ~isSubmitting(rendered)
    /\ Click(navigate(World, "/products"))
    /\ UNCHANGED rendered

ClickCancel ==
    /\ OnScreen
    /\ ~isSubmitting(rendered)
    /\ Click(handleCancel(World, rendered, "user"))
    /\ UNCHANGED rendered

\* the status indicator, clickable while it shows FAILED
ClickReconnect ==
    /\ OnScreen
    /\ rendered.wsStatus = "FAILED"
    /\ Click([handleReconnectWebSocket(World, rendered)
                 EXCEPT !.hist.reconnects = @ + 1])
    /\ UNCHANGED rendered

(***************************************************************************)
(* PaymentComplete, the confirmation screen shown at /payment-complete     *)
(* once PaymentScreen is unmounted                                         *)
(***************************************************************************)
OnConfirmation == route = "/payment-complete" /\ ~refs.isMounted

handleGoToMenu(w) == navigate(clearCart(resetPayment(w)), "/products")

\* the mount effect of PaymentComplete leaves at once when there is no order
ConfirmationWithoutOrder ==
    /\ OnConfirmation
    /\ payment.orderId = 0
    /\ Step(navigate(World, "/products"))
    /\ UNCHANGED rendered

\* the button of PaymentComplete, or its 10 s auto-redirect timeout
GoToMenu ==
    /\ OnConfirmation
    /\ payment.orderId # 0
    /\ Step(handleGoToMenu(World))
    /\ UNCHANGED rendered

Next ==
    \/ Render
    \/ Unmount
    \/ QrPaymentSuccess
    \/ QrPaymentError
    \/ StudentIdPaymentSuccess
    \/ StudentIdPaymentError
    \/ CancelOrderSettled
    \/ TimerTick
    \/ NotificationTimeout
    \/ ReconnectTimeout
    \/ SocketOpen
    \/ SocketMessage
    \/ SocketClose
    \/ ClickMethod
    \/ ClickKeypad
    \/ ClickSubmit
    \/ ClickRetry
    \/ ClickBackToProducts
    \/ ClickBack
    \/ DismissNotification
    \/ ClickCancel
    \/ ClickReconnect
    \/ ConfirmationWithoutOrder
    \/ GoToMenu

Spec == Init /\ [][Next]_vars

\* every cancellation call is answered or times out (the api client has a
\* request timeout), so a call in flight eventually settles
FairSpec == Spec /\ WF_vars(CancelOrderSettled)

(***************************************************************************)
(* validateStudentId as a function of its argument: the identifier cell    *)
(* holds any string over IdChars and handleStudentIdSubmit is called on it *)
(***************************************************************************)
MaxTypedLen == 5
IdChars == {"0", "1", "9", "x", " ", "-"}

ValidateInit ==
    /\ payment = [orderId |-> 1, requestId |-> 0, requestCode |-> 0,
                  requestMethod |-> "NONE", status |-> "PENDING",
                  timer |-> 0, isActive |-> FALSE]
    /\ ui = [selectedMethod |-> "STUDENT_ID", studentId |-> <<>>,
             errorMessage |-> "NONE", errorCode |-> "NONE",
             notification |-> "NONE", wsStatus |-> "DISCONNECTED"]
    /\ refs = [isMounted |-> TRUE, wsReconnectAttempts |-> 0, webSocket |-> 0,
               timerInterval |-> FALSE, notificationTimeout |-> 0,
               notificationStrays |-> 0,
               wsReconnectTimeout |-> 0, wsReconnectDelay |-> 0,
               wsReconnectStrays |-> <<>>,
               timerStrays |-> 0]
    /\ mut = [qr |-> [cur |-> FALSE, old |-> 0],
              sid |-> [cur |-> FALSE, old |-> 0],
              cancel |-> [cur |-> FALSE, old |-> 0]]
    /\ sockets = <<>>
    /\ cart = InitialCart
    /\ route = "/payment"
    /\ hist = [creates |-> 0, requests |-> 0, messages |-> 0, clicks |-> 0,
               keys |-> 0, reconnects |-> 0,
               cancelCalls |-> 0, cancelPosts |-> 0, cancelBy |-> {},
               cartOp |-> NoCartOp]
    /\ rendered = Snapshot(World)
    /\ limit = KeypadRun
    /\ auth = InitialAuth

\* the identifier cell is given one more character
TypeChar ==
    \E c \in IdChars :
        /\ hist.clicks = 0
        /\ Len(ui.studentId) < MaxTypedLen
        /\ Commit([World EXCEPT !.ui.studentId = Append(@, c)])
        /\ rendered' = Snapshot([World EXCEPT !.ui.studentId = Append(@, c)])

\* handleStudentIdSubmit is called with the identifier the render holds
SubmitTyped ==
    /\ hist.clicks = 0
    /\ Click(handleStudentIdSubmit(World, rendered))
    /\ UNCHANGED rendered

ValidateNext == TypeChar \/ SubmitTyped

ValidateSpec == ValidateInit /\ [][ValidateNext]_vars

(***************************************************************************)
(* useCartStore on its own: the product listing calls addItem and          *)
(* updateQuantity, the payment screens call clearCart                      *)
(***************************************************************************)
MaxQuantity == 3     \* largest quantity a line is given
MaxLines == 3        \* lines in the cart

\* what addItem is called with; product 1 is offered at two prices (the
\* listing is fetched again between two presses)
Products ==
    {[id |-> 1, price |-> 1000], [id |-> 1, price |-> 1200],
     [id |-> 2, price |-> 500], [id |-> 3, price |-> 0]}
ProductIds == {1, 2, 3, 4}
Quantities == (0 - 1)..MaxQuantity

CartInit ==
    /\ payment = [orderId |-> 0, requestId |-> 0, requestCode |-> 0,
                  requestMethod |-> "NONE", status |-> "PENDING",
                  timer |-> 0, isActive |-> FALSE]
    /\ ui = [selectedMethod |-> "QR_CODE", studentId |-> <<>>,
             errorMessage |-> "NONE", errorCode |-> "NONE",
             notification |-> "NONE", wsStatus |-> "DISCONNECTED"]
    /\ refs = [isMounted |-> FALSE, wsReconnectAttempts |-> 0, webSocket |-> 0,
               timerInterval |-> FALSE, notificationTimeout |-> 0,
               notificationStrays |-> 0,
               wsReconnectTimeout |-> 0, wsReconnectDelay |-> 0,
               wsReconnectStrays |-> <<>>,
               timerStrays |-> 0]
    /\ mut = [qr |-> [cur |-> FALSE, old |-> 0],
              sid |-> [cur |-> FALSE, old |-> 0],
              cancel |-> [cur |-> FALSE, old |-> 0]]
    /\ sockets = <<>>
    /\ cart = <<>>
    /\ route = "/products"
    /\ hist = [creates |-> 0, requests |-> 0, messages |-> 0, clicks |-> 0,
               keys |-> 0, reconnects |-> 0,
               cancelCalls |-> 0, cancelPosts |-> 0, cancelBy |-> {},
               cartOp |-> NoCartOp]
    /\ rendered = [Snapshot(World) EXCEPT !.committed = FALSE]
    /\ limit = SessionRun
    /\ auth = InitialAuth

CartWithinBounds(w) ==
    /\ Len(w.cart) <= MaxLines
    /\ \A i \in DOMAIN w.cart : w.cart[i].quantity <= MaxQuantity

CartStep(w, op, id, quantity) ==
    /\ CartWithinBounds(w)
    /\ Commit([w EXCEPT !.hist.cartOp = [op |-> op, id |-> id, quantity |-> quantity,
                                         before |-> cart]])
    /\ UNCHANGED rendered

\* the listing's product card is pressed
AddItem ==
    \E product \in Products :
        /\ route = "/products"
        /\ CartStep(addItem(World, product), "addItem", product.id, 1)

\* the listing's cart panel changes the quantity of a line
UpdateQuantity ==
    \E id \in ProductIds, quantity \in Quantities :
        /\ route = "/products"
        /\ CartStep(updateQuantity(World, id, quantity), "updateQuantity", id, quantity)

ClearCart ==
    /\ route = "/products"
    /\ CartStep(clearCart(World), "clearCart", 0, 0)

CartNext == AddItem \/ UpdateQuantity \/ ClearCart

CartSpec == CartInit /\ [][CartNext]_vars

(***************************************************************************)
(* The product listing with its stock checks.  In this specification ui    *)
(* holds the listing's cells: the products the query returned (fixed for   *)
(* the run), the alert and the number of pending alert timeouts.  The cart *)
(* store notifies the listing synchronously, so the cart in the handlers'  *)
(* closure is the cart of the store.                                       *)
(***************************************************************************)
ProductStatuses == {"AVAILABLE", "SOLD_OUT"}
StockFigures == 0..MaxStock

\* what GET /products/available may have returned: two products
Catalogues ==
    {<<[id |-> 1, price |-> 1000, status |-> s1, stock |-> k1],
       [id |-> 2, price |-> 500, status |-> s2, stock |-> k2]>> :
        s1 \in ProductStatuses, k1 \in StockFigures,
        s2 \in ProductStatuses, k2 \in StockFigures}

\* setAlertMessage, setAlertVisible(true), setTimeout(..., 3000)
showAlert(w, message) ==
    [w EXCEPT !.ui.alertMessage = message,
              !.ui.alertVisible = TRUE,
              !.ui.alertTimeouts = @ + 1]

handleAddToCart_NoStockCheck(w, product) ==
    IF product.status = "SOLD_OUT" \/ product.stock <= 0
    THEN showAlert(w, "soldOut")
    ELSE addItem(w, product)

handleAddToCart(w, product) ==
    IF product.status = "SOLD_OUT" \/ product.stock <= 0
    THEN showAlert(w, "soldOut")
    ELSE LET existing == {i \in DOMAIN w.cart : w.cart[i].id = product.id}
             currentQuantity == IF existing = {} THEN 0
                                ELSE w.cart[CHOOSE i \in existing :
                                               \A j \in existing : i <= j].quantity
         IN IF currentQuantity >= product.stock
            THEN showAlert(w, "noStock")
            ELSE addItem(w, product)

handleQuantityUpdate(w, id, newQuantity) ==
    IF newQuantity <= 0
    THEN updateQuantity(w, id, 0)
    ELSE LET found == {k \in DOMAIN w.ui.products : w.ui.products[k].id = id}
         IN IF found # {} /\ newQuantity >
                   w.ui.products[CHOOSE k \in found : \A j \in found : k <= j].stock
            THEN showAlert(w, "noStock")
            ELSE updateQuantity(w, id, newQuantity)

ProductsInit ==
    /\ payment = [orderId |-> 0, requestId |-> 0, requestCode |-> 0,
                  requestMethod |-> "NONE", status |-> "PENDING",
                  timer |-> 0, isActive |-> FALSE]
    /\ \E products \in Catalogues :
          ui = [products |-> products, alertMessage |-> "",
                alertVisible |-> FALSE, alertTimeouts |-> 0]
    /\ refs = [isMounted |-> FALSE, wsReconnectAttempts |-> 0, webSocket |-> 0,
               timerInterval |-> FALSE, notificationTimeout |-> 0,
               notificationStrays |-> 0,
               wsReconnectTimeout |-> 0, wsReconnectDelay |-> 0,
               wsReconnectStrays |-> <<>>,
               timerStrays |-> 0]
    /\ mut = [qr |-> [cur |-> FALSE, old |-> 0],
              sid |-> [cur |-> FALSE, old |-> 0],
              cancel |-> [cur |-> FALSE, old |-> 0]]
    /\ sockets = <<>>
    /\ cart = <<>>
    /\ route = "/products"
    /\ hist = [creates |-> 0, requests |-> 0, messages |-> 0, clicks |-> 0,
               keys |-> 0, reconnects |-> 0,
               cancelCalls |-> 0, cancelPosts |-> 0, cancelBy |-> {},
               cartOp |-> NoCartOp]
    /\ rendered = [committed |-> FALSE]
    /\ limit = SessionRun
    /\ auth = InitialAuth

ProductsStep(w, op, id, quantity) ==
    /\ w.ui.alertTimeouts <= MaxAlerts
    /\ Commit([w EXCEPT !.hist.cartOp = [op |-> op, id |-> id, quantity |-> quantity,
                                         before |-> cart]])
    /\ UNCHANGED rendered

\* handleAddToCart(product) for a product of the listing (the card calls it
\* only when the product is not sold out)
HandleAddToCart ==
    \E k \in DOMAIN ui.products :
        /\ "products" \in DOMAIN ui
        /\ ProductsStep(handleAddToCart(World, ui.products[k]),
                        "handleAddToCart", ui.products[k].id, 1)

\* handleQuantityUpdate(id, newQuantity); the cart panel calls it with the
\* quantity of a line minus or plus 1
HandleQuantityUpdate ==
    \E id \in ProductIds, newQuantity \in (0 - 1)..(MaxStock + 1) :
        /\ "products" \in DOMAIN ui
        /\ ProductsStep(handleQuantityUpdate(World, id, newQuantity),
                        "handleQuantityUpdate", id, newQuantity)

\* the callback of an alert's 3000 ms timeout
AlertTimeout ==
    /\ "products" \in DOMAIN ui
    /\ ui.alertTimeouts > 0
    /\ Commit([World EXCEPT !.ui.alertVisible = FALSE,
                            !.ui.alertTimeouts = @ - 1])
    /\ UNCHANGED rendered

ProductsNext == HandleAddToCart \/ HandleQuantityUpdate \/ AlertTimeout

ProductsSpec == ProductsInit /\ [][ProductsNext]_vars

(***************************************************************************)
(* The auth store.  Its actions are async functions without an await, so   *)
(* each runs to its end before another starts; every set() is a step, so   *)
(* the states between two set() calls are states of the store too.         *)
(* auth.pc is the next statement of the running action, auth.arg its       *)
(* argument, auth.last the action called last and what it found.           *)
(***************************************************************************)
Tokens == {"", "jwt1", "jwt2"}

\* if (state.token)
Truthy(token) == token # Null /\ token # ""

\* the store after persist has merged the stored token, before
\* onRehydrateStorage calls init()
AuthInit ==
    /\ payment = [orderId |-> 0, requestId |-> 0, requestCode |-> 0,
                  requestMethod |-> "NONE", status |-> "PENDING",
                  timer |-> 0, isActive |-> FALSE]
    /\ ui = [selectedMethod |-> "QR_CODE", studentId |-> <<>>,
             errorMessage |-> "NONE", errorCode |-> "NONE",
             notification |-> "NONE", wsStatus |-> "DISCONNECTED"]
    /\ refs = [isMounted |-> FALSE, wsReconnectAttempts |-> 0, webSocket |-> 0,
               timerInterval |-> FALSE, notificationTimeout |-> 0,
               notificationStrays |-> 0,
               wsReconnectTimeout |-> 0, wsReconnectDelay |-> 0,
               wsReconnectStrays |-> <<>>,
               timerStrays |-> 0]
    /\ mut = [qr |-> [cur |-> FALSE, old |-> 0],
              sid |-> [cur |-> FALSE, old |-> 0],
              cancel |-> [cur |-> FALSE, old |-> 0]]
    /\ sockets = <<>>
    /\ cart = <<>>
    /\ route = "/login"
    /\ hist = [creates |-> 0, requests |-> 0, messages |-> 0, clicks |-> 0,
               keys |-> 0, reconnects |-> 0,
               cancelCalls |-> 0, cancelPosts |-> 0, cancelBy |-> {},
               cartOp |-> NoCartOp]
    /\ rendered = [Snapshot(World) EXCEPT !.committed = FALSE]
    /\ limit = SessionRun
    /\ \E stored \in {Null} \cup (Tokens \ {""}) :
          auth = [InitialAuth EXCEPT !.token = stored]

AuthCommit(a) ==
    /\ auth' = a
    /\ UNCHANGED <<payment, ui, refs, mut, sockets, cart, route, rendered, hist, limit>>

\* an action is called: set({ loading: true, error: null })
AuthCall(op, arg, next) ==
    /\ auth.pc = "idle"
    /\ AuthCommit([auth EXCEPT !.loading = TRUE, !.error = Null,
                               !.pc = next, !.arg = arg,
                               !.last = [op |-> op, token |-> auth.token,
                                         authenticated |-> auth.authenticated]])

\* init(): const state = get(); if (state.token) set({ authenticated: true })
init_Authenticate(a) ==
    IF Truthy(a.token) THEN [a EXCEPT !.authenticated = TRUE] ELSE a

\* init(): set({ initialized: true, loading: false })
init_Finish(a) == [a EXCEPT !.initialized = TRUE, !.loading = FALSE]

\* signIn(token): set({ token, authenticated: true, loading: false })
signIn_Finish(a, token) ==
    [a EXCEPT !.token = token, !.authenticated = TRUE, !.loading = FALSE]

signOut_KeepsAuthenticated(a) == [a EXCEPT !.token = Null, !.loading = FALSE]

\* signOut(): set({ token: null, authenticated: false, loading: false })
signOut_Finish(a) ==
    [a EXCEPT !.token = Null, !.authenticated = FALSE, !.loading = FALSE]

\* resetError: () => set({ error: null })
resetError(a) == [a EXCEPT !.error = Null]

InitCalled == route = "/login" /\ AuthCall("init", Null, "init:authenticate")

InitAuthenticates ==
    /\ auth.pc = "init:authenticate"
    /\ AuthCommit([init_Authenticate(auth) EXCEPT !.pc = "init:finish"])

InitFinishes ==
    /\ auth.pc = "init:finish"
    /\ AuthCommit([init_Finish(auth) EXCEPT !.pc = "idle"])

SignInCalled ==
    \E token \in Tokens : route = "/login" /\ AuthCall("signIn", token, "signIn:finish")

SignInFinishes ==
    /\ auth.pc = "signIn:finish"
    /\ AuthCommit([signIn_Finish(auth, auth.arg) EXCEPT !.pc = "idle"])

SignOutCalled == route = "/login" /\ AuthCall("signOut", Null, "signOut:finish")

SignOutFinishes ==
    /\ auth.pc = "signOut:finish"
    /\ AuthCommit([signOut_Finish(auth) EXCEPT !.pc = "idle"])

ResetError ==
    /\ auth.pc = "idle"
    /\ route = "/login"
    /\ AuthCommit([resetError(auth) EXCEPT
                       !.last = [op |-> "resetError", token |-> auth.token,
                                 authenticated |-> auth.authenticated]])

AuthNext ==
    \/ InitCalled \/ InitAuthenticates \/ InitFinishes
    \/ SignInCalled \/ SignInFinishes
    \/ SignOutCalled \/ SignOutFinishes
    \/ ResetError

AuthSpec == AuthInit /\ [][AuthNext]_vars

(***************************************************************************)
(* Properties                                                              *)
(***************************************************************************)
SocketCreated == Len(sockets') > Len(sockets)
NewSocket == sockets'[Len(sockets')]
Live(ws) == ws.readyState \in {"CONNECTING", "OPEN"}
InFlightCount(m) == (IF m.cur THEN 1 ELSE 0) + m.old
CreationCallsInFlight == InFlightCount(mut.qr) + InFlightCount(mut.sid)

\* C1: the countdown reaching 0 and a channel EXPIRED frame never both issue
\* the order-cancellation call: the cancel path runs once for the order.
C1_ExpiryCancelsOnce == ~({"timer", "expired"} \subseteq hist.cancelBy)

\* C2: once the session status is terminal, no channel frame changes it to a
\* different status (a new payment request is what resets it).
C2_SingleTerminalOutcome ==
    [][(payment.status \in TerminalStatuses /\ SocketMessage)
          => payment'.status = payment.status]_vars

\* C3: at most one payment-creation call is in flight at any moment, and
\* handleMethodChange invoked while a creation call is pending changes nothing.
C3_OneCreationInFlight ==
    /\ [](CreationCallsInFlight <= 1)
    /\ [][(ClickMethod /\ CreationCallsInFlight > 0)
            => UNCHANGED <<payment, ui, mut>>]_vars

\* C4: the session never holds a payment request of a method other than the
\* selected one: a creation response that arrives after the method changed
\* stores nothing.
C4_LateResponseNotStored ==
    payment.requestMethod \in {"NONE", ui.selectedMethod}

\* C5: once the reconnect attempts are exhausted and the channel status is
\* FAILED, a connection is opened only by the manual reconnect (or after the
\* request id changed).
C5_NoAutomaticAttemptAfterFailed ==
    [][(/\ refs.wsReconnectAttempts >= MAX_RECONNECT_ATTEMPTS
        /\ ui.wsStatus = "FAILED"
        /\ payment'.requestId = payment.requestId
        /\ SocketCreated) => ClickReconnect]_vars

\* C6 as claimed: a manual reconnect sets the attempt counter to 0 and opens
\* exactly one connection.
C6_ManualReconnectOpensOne ==
    [][ClickReconnect
          => refs'.wsReconnectAttempts = 0 /\ Len(sockets') = Len(sockets) + 1]_vars

\* C6 amended: a manual reconnect sets the attempt counter to 0 and opens
\* exactly one connection when the rendered session has a request id, and
\* none when it has no request id.
C6_ManualReconnect ==
    [][ClickReconnect
          => /\ refs'.wsReconnectAttempts = 0
             /\ Len(sockets') = Len(sockets) + (IF rendered.requestId # 0 THEN 1 ELSE 0)]_vars

\* the indicator was clicked after the automatic attempts had used up the
\* other connections of a channel run: the counter is back at 0 and the
\* connection the click opened is connecting
C6_Witness ==
    /\ hist.reconnects = 1
    /\ rendered.requestId # 0
    /\ refs.wsReconnectAttempts = 0
    /\ Len(sockets) = MaxChannelSockets
    /\ refs.webSocket = MaxChannelSockets
    /\ sockets[MaxChannelSockets].readyState = "CONNECTING"
    /\ ui.wsStatus = "CONNECTING"

\* C7: no connection is opened while the channel status is CONNECTING or
\* CONNECTED and the current connection to the same request id is live.
C7_NoSecondConnection ==
    [][SocketCreated
          => ~(/\ ui.wsStatus \in {"CONNECTING", "CONNECTED"}
               /\ refs.webSocket # 0
               /\ Live(sockets[refs.webSocket])
               /\ sockets[refs.webSocket].requestId = NewSocket.requestId)]_vars

\* C8: a connection is only ever opened to the current request id of the
\* session.
C8_ConnectionsFollowRequestId ==
    [][SocketCreated => NewSocket.requestId = payment'.requestId]_vars

\* C9: while the session has no request id and the screen has rendered that,
\* no reconnect is pending and no connection is opened.
NoRequestRendered ==
    refs.isMounted /\ rendered.committed /\ rendered.requestId = 0 /\ payment.requestId = 0

C9_NoReconnectAfterCleanClose ==
    /\ [](NoRequestRendered => refs.wsReconnectTimeout = 0)
    /\ [][(NoRequestRendered /\ payment'.requestId = 0) => ~SocketCreated]_vars

C11_TeardownClearsHandles ==
    ~refs.isMounted =>
        /\ ~refs.timerInterval
        /\ refs.notificationTimeout = 0 /\ refs.notificationStrays = 0
        /\ refs.wsReconnectTimeout = 0
        /\ \A i \in DOMAIN sockets : ~Live(sockets[i])

\* the screen was torn down while the countdown was running, a notification
\* was on display and the connection was in use: the socket is closing
C11_Witness ==
    /\ ~refs.isMounted
    /\ rendered.isActive /\ rendered.timer > 0
    /\ payment.isActive /\ payment.timer > 0
    /\ ui.notification # "NONE"
    /\ \E i \in DOMAIN sockets : sockets[i].readyState = "CLOSING"

\* the cancel button of a render is disabled while any of the three calls
\* is pending in that render
CancelButtonDisabled(r) == isSubmitting(r)

\* C12: a user cancel is accepted in every session state: whatever call is in
\* flight, the cancel button of the committed screen is enabled.
C12_CancelAlwaysAccepted ==
    OnScreen => ~CancelButtonDisabled(rendered)

C14_NoCreationWhileFailed ==
    [][ui.errorMessage # "NONE" => hist.creates' = hist.creates]_vars

\* C15: whenever the error of a failed creation call is on display, the
\* screen offers the way back to the product listing (and no retry) for
\* ORDER_NOT_FOUND and ORDER_NOT_PENDING, and retry for every other failure,
\* a failure without a code included.
C15_RetryUnlessOrderError ==
    (OnScreen /\ ErrorView(rendered)) =>
        renderErrorAction(rendered) =
            (IF rendered.errorCode \in {"ORDER_NOT_PENDING", "ORDER_NOT_FOUND"}
             THEN "back" ELSE "retry")

CompletedFrameEffect ==
    LET w == wsOnMessage(World, rendered, "COMPLETED")
    IN /\ w.payment.status = "COMPLETED"
       /\ w.cart = cart
       /\ w.route = route

CancelIssued == hist'.cancelCalls > hist.cancelCalls

FailedFrameEffect ==
    LET w == wsOnMessage(World, rendered, "FAILED")
    IN /\ w.payment.status = "FAILED"
       /\ w.ui.notification = "error" /\ w.refs.notificationTimeout # 0
       /\ w.hist.cancelCalls = hist.cancelCalls
       /\ w.mut = mut

\* C17: on the mounted screen a FAILED frame sets the session status to
\* FAILED and shows the error notification without calling
\* cancelOrderMutation; and every step that does issue a cancellation call
\* is the cancel button, a commit that renders the countdown at 0 while
\* active, or a frame that sets EXPIRED.
C17_FailedDoesNotCancel ==
    /\ [](refs.isMounted => FailedFrameEffect)
    /\ [][CancelIssued
            => \/ ClickCancel
               \/ Render /\ rendered'.isActive /\ rendered'.timer <= 0
               \/ SocketMessage /\ payment'.status = "EXPIRED"]_vars

\* a FAILED frame arrived and the screen has rendered it: the status is
\* FAILED, the notification is up and no cancellation call was ever issued
C17_Witness ==
    /\ refs.isMounted
    /\ hist.messages = 1
    /\ payment.status = "FAILED" /\ rendered.status = "FAILED"
    /\ ui.notification = "error"
    /\ hist.cancelCalls = 0

ExpiredFrameEffect ==
    LET w == wsOnMessage(World, rendered, "EXPIRED")
    IN /\ w.payment.status = "EXPIRED"
       /\ w.ui.notification = "error"
       /\ w.hist.cancelCalls = hist.cancelCalls + 1
       /\ w.mut.cancel.cur

CleanedUp ==
    /\ payment = cancelPayment(World).payment
    /\ cart = <<>>
    /\ route = "/products"

SessionGone ==
    /\ payment.orderId = 0 /\ payment.requestId = 0 /\ ~payment.isActive
    /\ cart = <<>>
    /\ route = "/products"

RenderedTimeout ==
    /\ OnScreen /\ rendered.isActive /\ rendered.timer <= 0
    /\ payment.isActive

CreationIssued == hist'.creates > hist.creates

\* C20: as long as the user has pressed nothing since the screen opened with
\* the code-scan method selected, at most one creation call has been issued;
\* and while the identifier method is selected a creation call is issued
\* only by the submit button.
C20_OneCallPerSelection ==
    /\ []((hist.clicks = 0 /\ hist.keys = 0) => hist.creates <= 1)
    /\ [][(ui.selectedMethod = "STUDENT_ID" /\ CreationIssued) => ClickSubmit]_vars

\* a press of a method button that handleMethodChange acts on
MethodChanged == ClickMethod /\ ui'.selectedMethod # ui.selectedMethod

\* C21: a method change takes effect only while no creation call and no
\* cancellation call is in flight, and when it takes effect the payment
\* request is discarded (resetPaymentRequest), the error message and error
\* code are cleared and the typed identifier is cleared.
C21_MethodChangeEffect ==
    /\ [][MethodChanged => CreationCallsInFlight = 0 /\ InFlightCount(mut.cancel) = 0]_vars
    /\ [][MethodChanged => /\ payment' = resetPaymentRequest(World).payment
                           /\ ui'.errorMessage = "NONE"
                           /\ ui'.errorCode = "NONE"]_vars
    /\ [][MethodChanged => ui'.studentId = <<>>]_vars

\* the structured code of the specification: 4 decimal digits, grade 1..9,
\* room 1..9, number 1..99
StructuredId(id) ==
    /\ Len(id) = 4
    /\ \A i \in 1..4 : DigitOf(id[i]) >= 0
    /\ DigitOf(id[1]) \in 1..9
    /\ DigitOf(id[2]) \in 1..9
    /\ 10 * DigitOf(id[3]) + DigitOf(id[4]) \in 1..99

C23_InvalidSubmitStaysLocal ==
    [][(SubmitTyped /\ ~validateStudentId(rendered.studentId))
        => /\ ~CreationIssued
           /\ mut' = mut /\ payment' = payment /\ sockets' = sockets
           /\ cart' = cart /\ route' = route
           /\ ui' = [ui EXCEPT !.notification = "info"]
           /\ refs' = [refs EXCEPT !.notificationTimeout = NOTIFICATION_DURATION]]_vars

\* "0099" has 4 digits and fails validation; it was submitted, the info
\* notification is up and no creation call was issued
C23_Witness ==
    /\ ui.studentId = <<"0", "0", "9", "9">>
    /\ hist.clicks = 1
    /\ ui.notification = "info"
    /\ hist.creates = 0 /\ ~mut.sid.cur

\* the sum of price * quantity and the sum of quantity over the first n
\* lines of a cart
RECURSIVE SumAmount(_, _)
SumAmount(items, n) ==
    IF n = 0 THEN 0
    ELSE SumAmount(items, n - 1) + items[n].price * items[n].quantity

RECURSIVE SumQuantity(_, _)
SumQuantity(items, n) ==
    IF n = 0 THEN 0 ELSE SumQuantity(items, n - 1) + items[n].quantity

\* C24: in every cart addItem, updateQuantity and clearCart can produce,
\* getTotalAmount() is the sum of price * quantity over the lines and
\* getTotalItems() is the sum of quantity over the lines.
C24_TotalsAreSums ==
    /\ getTotalAmount(World) = SumAmount(cart, Len(cart))
    /\ getTotalItems(World) = SumQuantity(cart, Len(cart))

\* the cart of the scenario: 1000 x 2 and 500 x 3 give 3500 and 5
C24_Witness ==
    /\ cart = <<[id |-> 1, price |-> 1000, quantity |-> 2],
                [id |-> 2, price |-> 500, quantity |-> 3]>>
    /\ getTotalAmount(World) = 3500
    /\ getTotalItems(World) = 5

\* C25: every line of the cart has quantity >= 1, whatever addItem,
\* updateQuantity(id, n) with any integer n, and clearCart were called.
C25_QuantityAtLeastOne ==
    \A i \in DOMAIN cart : cart[i].quantity >= 1

\* updateQuantity(1, 0) was called on a cart holding product 1 among others:
\* the line is gone and the lines that remain have quantity >= 1
C25_Witness ==
    /\ hist.cartOp.op = "updateQuantity"
    /\ hist.cartOp.id = 1 /\ hist.cartOp.quantity = 0
    /\ \E i \in DOMAIN hist.cartOp.before : hist.cartOp.before[i].id = 1
    /\ Len(cart) = Len(hist.cartOp.before) - 1
    /\ cart # <<>>

\* what the claim says addItem does to the items
AddItemEffect(before, after, id) ==
    IF \E i \in DOMAIN before : before[i].id = id
    THEN /\ Len(after) = Len(before)
         /\ \A i \in DOMAIN before :
               after[i] = IF before[i].id = id
                          THEN [before[i] EXCEPT !.quantity = @ + 1]
                          ELSE before[i]
    ELSE /\ Len(after) = Len(before) + 1
         /\ \A i \in DOMAIN before : after[i] = before[i]
         /\ after[Len(after)].id = id
         /\ after[Len(after)].quantity = 1

\* C26: addItem(product) adds exactly 1 to the quantity of the line with the
\* product's id when there is one, and otherwise appends one line with
\* quantity 1 at the end; every other line stays as it is, where it is.
C26_AddItemEffect ==
    [][AddItem => AddItemEffect(cart, cart', hist'.cartOp.id)]_vars

\* addItem was called for product 1 on a cart whose first line is product 1
\* and whose second line is another product: the first line has one more,
\* the second is untouched
C26_Witness ==
    /\ hist.cartOp.op = "addItem" /\ hist.cartOp.id = 1
    /\ Len(hist.cartOp.before) = 2 /\ Len(cart) = 2
    /\ hist.cartOp.before[1].id = 1 /\ hist.cartOp.before[2].id = 2
    /\ cart[1].quantity = hist.cartOp.before[1].quantity + 1
    /\ cart[2] = hist.cartOp.before[2]

\* what the claim says updateQuantity does to the items
UpdateQuantityEffect(before, after, id, n) ==
    IF ~\E i \in DOMAIN before : before[i].id = id THEN after = before
    ELSE IF n <= 0
    THEN after = SelectSeq(before, LAMBDA item : item.id # id)
    ELSE /\ Len(after) = Len(before)
         /\ \A i \in DOMAIN before :
               after[i] = IF before[i].id = id
                          THEN [before[i] EXCEPT !.quantity = n]
                          ELSE before[i]

\* C27: updateQuantity(id, n) removes the line with that id when n <= 0 and
\* sets its quantity to n when n > 0; every other line stays as it is, in
\* the same order; when no line has that id the items do not change.
C27_UpdateQuantityEffect ==
    [][UpdateQuantity
        => UpdateQuantityEffect(cart, cart', hist'.cartOp.id, hist'.cartOp.quantity)]_vars

\* updateQuantity(4, 2) was called on a cart of two lines, none of product
\* 4: the cart is as it was
C27_Witness ==
    /\ hist.cartOp.op = "updateQuantity"
    /\ hist.cartOp.id = 4 /\ hist.cartOp.quantity = 2
    /\ Len(hist.cartOp.before) = 2
    /\ cart = hist.cartOp.before

\* showNotification called now: the given notification is on display and
\* the only dismiss timeout pending is the one just armed
ShowNotificationEffect(type) ==
    LET w == showNotification(World, type)
    IN /\ w.ui.notification = type
       /\ w.refs.notificationTimeout = NOTIFICATION_DURATION
       /\ w.refs.notificationStrays = 0

\* C28: the screen holds one notification and at most one pending dismiss
\* timeout, the one notificationTimeoutRef points to; a notification on
\* display always has that timeout pending, armed for 3000 ms by the call
\* that showed it; showNotification replaces the notification and the
\* timeout; a notification leaves the display only by that timeout, by its
\* close button or by being replaced.
C28_OneNotificationOneTimeout ==
    /\ [](refs.notificationStrays = 0)
    /\ []((refs.isMounted /\ ui.notification # "NONE")
            => refs.notificationTimeout = NOTIFICATION_DURATION)
    /\ [](refs.isMounted => \A type \in {"success", "error", "info"} : ShowNotificationEffect(type))
    /\ [][(ui.notification # "NONE" /\ ui'.notification = "NONE")
            => NotificationTimeout \/ DismissNotification]_vars
    /\ [][(ui.notification # "NONE" /\ ui'.notification # ui.notification
                                    /\ ui'.notification # "NONE")
            => refs'.notificationTimeout = NOTIFICATION_DURATION]_vars

\* the first creation call failed (error notification) and the identifier
\* request that followed was accepted (success notification): the success
\* notification is on display with the one pending timeout
C28_Witness ==
    /\ refs.isMounted
    /\ hist.creates = 2 /\ hist.requests = 1
    /\ payment.requestMethod = "STUDENT_ID"
    /\ ui.notification = "success"
    /\ refs.notificationTimeout = NOTIFICATION_DURATION
    /\ refs.notificationStrays = 0

\* the channel status turns FAILED in this step
ChannelFails == ui.wsStatus # "FAILED" /\ ui'.wsStatus = "FAILED"

\* C29: the channel status turns FAILED only when the reconnection attempts
\* are exhausted: no socket error, unclean close or malformed frame makes it
\* FAILED while fewer than MAX_RECONNECT_ATTEMPTS attempts have been made.
C29_FailedOnlyWhenExhausted ==
    [][ChannelFails => refs.wsReconnectAttempts >= MAX_RECONNECT_ATTEMPTS]_vars

\* the close event of socket i has not been delivered yet
CanClose(i) ==
    sockets[i].readyState \in {"CONNECTING", "OPEN", "CLOSING", "ABORTING"}

\* what an unclean close of socket i does to the mounted screen
UncleanCloseEffect(i) ==
    LET a == refs.wsReconnectAttempts
        w == wsOnClose(World, i, FALSE)
    IN /\ w.refs.wsReconnectAttempts = a
       /\ IF a < MAX_RECONNECT_ATTEMPTS
          THEN /\ w.refs.wsReconnectTimeout # 0
               /\ a = 0 => w.refs.wsReconnectDelay = 3000
               /\ a = 1 => w.refs.wsReconnectDelay = 6000
               /\ a = 2 => w.refs.wsReconnectDelay = 9000
               /\ w.ui.wsStatus = "DISCONNECTED"
          ELSE /\ w.refs.wsReconnectTimeout = 0
               /\ w.refs.wsReconnectDelay = 0

\* C30: an unclean close after a < 3 attempts leaves exactly one reconnect
\* pending, with delay 3000, 6000 or 9000 ms for a = 0, 1, 2; the attempt
\* counter goes up by one when that reconnect runs, and only then; after 3
\* attempts an unclean close schedules nothing.
C30_ReconnectSchedule ==
    /\ [](\A i \in DOMAIN sockets :
            refs.isMounted /\ CanClose(i) => UncleanCloseEffect(i))
    /\ [](refs.wsReconnectTimeout = 0 <=> refs.wsReconnectDelay = 0)
    /\ [](refs.wsReconnectTimeout # 0 =>
            /\ refs.wsReconnectAttempts < MAX_RECONNECT_ATTEMPTS
            /\ refs.wsReconnectDelay \in {3000, 6000, 9000})
    /\ [][ReconnectTimeout =>
            /\ refs'.wsReconnectAttempts = refs.wsReconnectAttempts + 1
            /\ Len(sockets') = Len(sockets) + 1
            /\ refs'.wsReconnectTimeout = 0]_vars
    /\ [][refs'.wsReconnectAttempts > refs.wsReconnectAttempts
            => ReconnectTimeout]_vars
    /\ [][(refs'.wsReconnectDelay # refs.wsReconnectDelay /\ refs'.wsReconnectDelay # 0)
            => /\ SocketClose
               /\ refs'.wsReconnectDelay = 3000 * (refs.wsReconnectAttempts + 1)]_vars

\* the third reconnect is pending, 9000 ms after the close that followed
\* two attempts
C30_Witness ==
    /\ refs.wsReconnectAttempts = 2
    /\ refs.wsReconnectTimeout # 0
    /\ refs.wsReconnectDelay = 9000
    /\ ui.wsStatus = "DISCONNECTED"

\* a connection attempt (new WebSocket) is made in this step
ConnectionAttempted == Len(sockets') > Len(sockets)

\* C31: while a scheduled reconnect is pending, the only step that makes a
\* connection attempt is the scheduled reconnect itself: no effect or other
\* automatic trigger bypasses the backoff delay.
C31_BackoffNotBypassed ==
    [][(refs.wsReconnectTimeout # 0 /\ ConnectionAttempted) => ReconnectTimeout]_vars

\* C32: every open of a channel socket on the mounted screen sets the channel
\* status to CONNECTED and the reconnect attempt counter to 0, whatever the
\* counter was.
C32_OpenResetsAttempts ==
    /\ [][(SocketOpen /\ refs.isMounted)
            => ui'.wsStatus = "CONNECTED" /\ refs'.wsReconnectAttempts = 0]_vars
    /\ [](\A i \in DOMAIN sockets :
            (refs.isMounted /\ sockets[i].readyState = "CONNECTING")
                => LET w == wsOnOpen(World)
                   IN w.ui.wsStatus = "CONNECTED" /\ w.refs.wsReconnectAttempts = 0)

\* the channel is open again after an earlier socket was lost: the status is
\* CONNECTED and no attempt is counted
C32_Witness ==
    /\ refs.isMounted
    /\ refs.webSocket > 1
    /\ sockets[refs.webSocket].readyState = "OPEN"
    /\ sockets[1] = ClosedSocket
    /\ ui.wsStatus = "CONNECTED"
    /\ refs.wsReconnectAttempts = 0

\* the number of reconnect timeouts that are scheduled and have not fired
PendingReconnects(w) ==
    Len(w.refs.wsReconnectStrays) + (IF w.refs.wsReconnectTimeout # 0 THEN 1 ELSE 0)

\* C33: at most one reconnect timeout is pending at any time; an unclean
\* close that schedules a reconnect while one is pending replaces it, so
\* after a scheduled reconnect has fired none is left to fire.
C33_OnePendingReconnect ==
    /\ [](PendingReconnects(World) <= 1)
    /\ [](\A i \in DOMAIN sockets :
            (refs.isMounted /\ CanClose(i))
                => PendingReconnects(wsOnClose(World, i, FALSE)) <= 1)
    /\ [][ReconnectTimeout => PendingReconnects(World') = 0]_vars

\* two sockets were lost one after the other without a manual reconnect, and
\* exactly one reconnect is pending
C33_Witness ==
    /\ refs.isMounted
    /\ Len(sockets) = 2
    /\ sockets[1] = ClosedSocket /\ sockets[2] = ClosedSocket
    /\ hist.reconnects = 0
    /\ refs.wsReconnectAttempts = 0
    /\ PendingReconnects(World) = 1
    /\ refs.wsReconnectDelay = WS_RECONNECT_DELAY

\* w differs from the current state in nothing a session consists of: the
\* store (status, request, timer), the cart, the route, the calls in flight
\* and issued, the countdown interval and the notification
SessionUntouched(w) ==
    /\ w.payment = payment
    /\ w.cart = cart
    /\ w.route = route
    /\ w.mut = mut
    /\ w.hist.cancelCalls = hist.cancelCalls
    /\ w.hist.creates = hist.creates
    /\ w.refs.timerInterval = refs.timerInterval
    /\ w.ui.notification = ui.notification

\* C34: a frame that cannot be parsed is a connection fault only: it sets
\* the channel status and leaves the session status, the request, the
\* timer and the cart as they were, issues no cancellation and does not
\* navigate.
C34_MalformedIsConnectionFault ==
    /\ [](refs.isMounted =>
            LET w == wsOnMessage(World, rendered, "MALFORMED")
            IN SessionUntouched(w) /\ w.ui.wsStatus = "FAILED")
    /\ [][(SocketMessage /\ ChannelFails) => SessionUntouched(World')]_vars

\* a malformed frame has arrived on the open socket of a pending session
C34_Witness ==
    /\ refs.isMounted
    /\ hist.messages = 1
    /\ ui.wsStatus = "FAILED"
    /\ refs.webSocket # 0
    /\ sockets[refs.webSocket].readyState = "OPEN"
    /\ payment.status = "PENDING"
    /\ payment.requestId # 0
    /\ payment.isActive
    /\ hist.cancelCalls = 0
    /\ route = "/payment"

C36_AttemptsBounded ==
    [](refs.wsReconnectAttempts >= 0
        /\ refs.wsReconnectAttempts <= MAX_RECONNECT_ATTEMPTS)

\* three scheduled reconnects in a row have run, and the socket of the last
\* one can still fail
C36_Witness ==
    /\ refs.isMounted
    /\ refs.wsReconnectAttempts = MAX_RECONNECT_ATTEMPTS
    /\ \E i \in DOMAIN sockets : CanClose(i)

\* a cancellation call for the order is posted in this step
CancellationIssued == hist'.cancelPosts > hist.cancelPosts

\* the client goes to the confirmation screen in this step
GoesToConfirmation == route # "/payment-complete" /\ route' = "/payment-complete"

\* C37: for one order the client never both posts a cancellation and goes
\* to the confirmation screen: no cancellation is posted once the status is
\* COMPLETED, and no step leads to the confirmation screen once a
\* cancellation has been posted.
C37_NeverCancelAndComplete ==
    /\ [][CancellationIssued => payment.status # "COMPLETED"]_vars
    /\ [][GoesToConfirmation => hist'.cancelPosts = 0]_vars

\* no two lines of the cart hold the same product id
DistinctIds(items) ==
    \A i, j \in DOMAIN items : i # j => items[i].id # items[j].id

\* C38: in every cart state reached from the empty cart by addItem,
\* updateQuantity and clearCart, no two lines have the same product id.
C38_DistinctProductIds == [](DistinctIds(cart))

\* a product was added again to a cart of three lines that already held it
C38_Witness ==
    /\ hist.cartOp.op = "addItem"
    /\ Len(cart) = MaxLines
    /\ Len(hist.cartOp.before) = MaxLines
    /\ \E i \in DOMAIN cart :
          /\ cart[i].id = hist.cartOp.id
          /\ hist.cartOp.before[i].id = hist.cartOp.id
          /\ cart[i].quantity = hist.cartOp.before[i].quantity + 1

\* the line is covered by the stock of a product that can be sold
WithinStock(line, products) ==
    \E k \in DOMAIN products :
        /\ products[k].id = line.id
        /\ products[k].status # "SOLD_OUT"
        /\ products[k].stock > 0
        /\ line.quantity <= products[k].stock

\* C39: with the stock figures fixed, after any sequence of handleAddToCart
\* and handleQuantityUpdate from the empty cart every line's quantity is at
\* most the stock of its product, and no line exists for a product that is
\* SOLD_OUT or has stock <= 0.
C39_CartWithinStock ==
    [](\A i \in DOMAIN cart : WithinStock(cart[i], ui.products))

\* a product whose whole stock is in the cart was pressed again: the cart
\* is as before and the alert is shown
C39_Witness ==
    /\ hist.cartOp.op = "handleAddToCart"
    /\ ui.alertVisible /\ ui.alertMessage = "noStock"
    /\ cart = hist.cartOp.before
    /\ \E i \in DOMAIN cart, k \in DOMAIN ui.products :
          /\ cart[i].id = hist.cartOp.id
          /\ ui.products[k].id = cart[i].id
          /\ cart[i].quantity = ui.products[k].stock
          /\ cart[i].quantity = MaxStock

\* C40: in every state of the auth store, between two set() calls included,
\* authenticated implies that the token is not null; signOut ends with the
\* token null and authenticated false; and whenever no action is running
\* loading is false.
C40_AuthStoreConsistent ==
    /\ [](auth.authenticated => auth.token # Null)
    /\ [][SignOutFinishes => (auth'.token = Null /\ ~auth'.authenticated)]_vars
    /\ []((auth.pc = "idle" /\ auth.last.op = "signOut")
            => (auth.token = Null /\ ~auth.authenticated))
    /\ [](auth.pc = "idle" => ~auth.loading)
    /\ [](auth.pc # "idle" => auth.loading)

\* signOut was called on an authenticated, initialized store and has ended
C40_Witness ==
    /\ auth.pc = "idle"
    /\ auth.last = [op |-> "signOut", token |-> "jwt1", authenticated |-> TRUE]
    /\ auth.initialized
    /\ auth.token = Null /\ ~auth.authenticated /\ ~auth.loading
====
